---------------------------- MODULE Spec2Model ----------------------------
(***************************************************************************)
(* Transaction API: the HTTP handlers (handlers package), the service      *)
(* (services package) and the transactions table they work on.             *)
(*                                                                         *)
(* The table is a sequence of rows in insertion order.  A request is       *)
(* served by one handler; in the specification Spec requests are served    *)
(* one at a time: a handler runs from its first line to the response, the  *)
(* response is delivered (Complete), and the next request arrives.         *)
(* Amounts are whole numbers of the currency's unit; times are ticks of    *)
(* the UTC clock.                                                          *)
(***************************************************************************)
EXTENDS Integers, Sequences, FiniteSets, TLC

VARIABLES
    db,       \* the transactions table: a sequence of rows, in insertion order
    autoInc,  \* the table's AUTO_INCREMENT counter: the id the next insert gets
    clock,    \* time.Now().UTC(), in ticks
    pc,       \* "idle": waiting for a request; "responded": a response is out
    req,      \* the request of the last response (NoReq when idle)
    resp,     \* the last response (NoResp when idle)
    pre,      \* the table as it was when that request arrived
    inflight  \* the requests served concurrently, one to a goroutine

vars == <<db, autoInc, clock, pc, req, resp, pre, inflight>>

---------------------------------------------------------------------------
(* Bounds of the model *)

\* most rows the table holds
MaxRows == 2
\* last tick of the clock
MaxClock == 1

---------------------------------------------------------------------------
(* models.TransactionStatus and models.Transaction *)

StatusPending == "pending"
StatusSuccess == "success"
StatusFailed == "failed"

\* the values the validator's oneof lets through
Statuses == {StatusPending, StatusSuccess, StatusFailed}

\* gorm.DeletedAt of a live row: SQL NULL
NULL == 0 - 1

\* the zero value of models.Transaction, as returned beside an error
NoTxn ==
    [ID |-> 0, UserID |-> 0, Amount |-> 0, Status |-> "",
     CreatedAt |-> 0, UpdatedAt |-> 0, DeletedAt |-> NULL]

---------------------------------------------------------------------------
(* Inputs a client can send *)

\* A JSON field of a body, or a parameter of a query string: not there, a
\* number, or a string.
Absent == [kind |-> "absent", num |-> 0, str |-> ""]
Num(n) == [kind |-> "num", num |-> n, str |-> ""]
Str(s) == [kind |-> "str", num |-> 0, str |-> s]

\* Go's int is 64 bits wide on the build target (amd64). An int that
\* arithmetic is done on is held as four 16-bit limbs, the most significant
\* first, in two's complement.
Limb == 2 ^ 16

\* the int of a number n the model checker can hold
Int64(n) ==
    IF n >= 0
    THEN <<0, 0, n \div Limb, n % Limb>>
    ELSE LET m == (0 - n) - 1
         IN  <<Limb - 1, Limb - 1,
               Limb - 1 - (m \div Limb), Limb - 1 - (m % Limb)>>

\* a <= 0
Int64NotPositive(a) == a[1] >= Limb \div 2 \/ a = <<0, 0, 0, 0>>

\* a - 1, wrapping
Int64Dec(a) ==
    IF a[4] > 0 THEN <<a[1], a[2], a[3], a[4] - 1>>
    ELSE IF a[3] > 0 THEN <<a[1], a[2], a[3] - 1, Limb - 1>>
    ELSE IF a[2] > 0 THEN <<a[1], a[2] - 1, Limb - 1, Limb - 1>>
    ELSE <<(a[1] + Limb - 1) % Limb, Limb - 1, Limb - 1, Limb - 1>>

\* a * b, wrapping, for 0 <= b < 2^15: the bits above the 64th are dropped
Int64Mul(a, b) ==
    LET p4 == a[4] * b
        p3 == a[3] * b + p4 \div Limb
        p2 == a[2] * b + p3 \div Limb
        p1 == a[1] * b + p2 \div Limb
    IN  <<p1 % Limb, p2 % Limb, p3 % Limb, p4 % Limb>>

\* page numbers of a query string beyond the numbers the model checker can
\* hold: 1844674407370955163 (0x199999999999999B), the least page whose
\* offset at ten to the page passes 2^64
WidePages == <<<<6553, 39321, 39321, 39323>>>>
Wide(k) == [kind |-> "wide", num |-> k, str |-> ""]

Users == {1, 2}
Amounts == {1, 2}

\* user_id of a POST body
UserFields == {Absent, Str("x")} \cup {Num(n) : n \in {0 - 1, 0} \cup Users}
\* amount of a POST body
AmountFields == {Absent, Str("x")} \cup {Num(n) : n \in {0 - 1, 0} \cup Amounts}
\* status of a PUT body
StatusFields ==
    {Absent, Num(1)}
        \cup {Str(s) : s \in {"invalid", "Pending", ""} \cup Statuses}

\* the path parameter :id, a string of characters
DigitChars == <<"0", "1", "2", "3", "4", "5", "6", "7", "8", "9">>
IdStrs ==
    {<<DigitChars[n + 1]>> : n \in 0..(MaxRows + 1)}
        \cup {<<"a", "b", "c">>, <<"-", "1">>,
              <<"4", "2", "9", "4", "9", "6", "7", "2", "9", "6">>}

\* no request, and the fields every request has
NoReq ==
    [op |-> "none", idStr |-> <<>>, malformed |-> FALSE,
     user |-> Absent, amount |-> Absent, status |-> Absent,
     qUser |-> Absent, qStatus |-> Absent, qPage |-> Absent, qLimit |-> Absent]

---------------------------------------------------------------------------
(* Responses *)

\* a float64 that is the quotient of two whole numbers, in lowest terms
RECURSIVE GCD(_, _)
GCD(a, b) == IF b = 0 THEN a ELSE GCD(b, a % b)
Quotient(a, b) == [num |-> a \div GCD(a, b), den |-> b \div GCD(a, b)]

\* the zero value of models.DashboardSummary; status_distribution is held
\* as the set of its <<key, value>> pairs
NoSummary ==
    [TotalSuccessToday |-> 0, AverageAmountPerUser |-> Quotient(0, 1),
     TotalTransactions |-> 0, RecentTransactions |-> <<>>,
     TotalAmount |-> 0, TotalAmountToday |-> 0, StatusDistribution |-> {}]

\* no response, and the fields every response has: the HTTP status, the
\* error code of middleware.ErrorResponse, what the service returned when
\* the handler called it ("none" when it did not), the record of the body,
\* and the fields of models.TransactionResponse
NoResp ==
    [code |-> 0, error |-> "", svc |-> "none", txn |-> NoTxn,
     data |-> <<>>, total |-> 0, page |-> Int64(0), limit |-> 0,
     totalPages |-> 0, summary |-> NoSummary]

\* middleware.SendValidationError
SendValidationError ==
    [NoResp EXCEPT !.code = 400, !.error = "validation_error"]

\* middleware.SendError
SendError(statusCode, err) ==
    [NoResp EXCEPT !.code = statusCode, !.error = err]

---------------------------------------------------------------------------
(* Decoding: json.Unmarshal into the request structs (ShouldBindJSON) *)

\* into a uint field: a missing field leaves the zero value, a negative
\* number or a string is an error
BindUint(f) ==
    CASE f.kind = "absent" -> [ok |-> TRUE, val |-> 0]
      [] f.kind = "num" /\ f.num >= 0 -> [ok |-> TRUE, val |-> f.num]
      [] OTHER -> [ok |-> FALSE, val |-> 0]

\* into a float64 or int field
BindNumber(f) ==
    CASE f.kind = "absent" -> [ok |-> TRUE, val |-> 0]
      [] f.kind = "num" -> [ok |-> TRUE, val |-> f.num]
      [] OTHER -> [ok |-> FALSE, val |-> 0]

\* into an int field that arithmetic is done on
BindInt(f) ==
    CASE f.kind = "absent" -> [ok |-> TRUE, val |-> Int64(0)]
      [] f.kind = "num" -> [ok |-> TRUE, val |-> Int64(f.num)]
      [] f.kind = "wide" -> [ok |-> TRUE, val |-> WidePages[f.num]]
      [] OTHER -> [ok |-> FALSE, val |-> Int64(0)]

\* into a string field
BindString(f) ==
    CASE f.kind = "absent" -> [ok |-> TRUE, val |-> ""]
      [] f.kind = "str" -> [ok |-> TRUE, val |-> f.str]
      [] OTHER -> [ok |-> FALSE, val |-> ""]

\* validate:"required" on a number: not the zero value
Required(v) == v # 0

\* mutant of GtZero: the tag is left out
GtZero_Missing(v) == TRUE

\* validate:"gt=0"
GtZero(v) == v > 0

\* mutant of RequiredOneOf: the value is compared without regard to case
RequiredOneOf_AnyCase(v) == v \in Statuses \cup {"Pending"}

\* mutant of RequiredOneOf: the oneof tag is left out
RequiredOneOf_OnlyRequired(s) == s # ""

\* validate:"required,oneof=pending success failed" on a status
RequiredOneOf(s) == s # "" /\ s \in Statuses

---------------------------------------------------------------------------
(* The table: what GORM's calls do to it *)

\* rows a default (scoped) query sees: deleted_at IS NULL
Live(rows) == SelectSeq(rows, LAMBDA r : r.DeletedAt = NULL)

\* the set of the elements of a sequence
Range(s) == {s[i] : i \in DOMAIN s}

\* mutant of First: the query is not scoped to live rows
First_Unscoped(rows, id) ==
    LET hit == SelectSeq(rows, LAMBDA r : r.ID = id)
    IN  IF Len(hit) = 0
        THEN [found |-> FALSE, txn |-> NoTxn]
        ELSE [found |-> TRUE, txn |-> hit[1]]

\* db.First(&transaction, id): the live row of that primary key
First(rows, id) ==
    LET hit == SelectSeq(Live(rows), LAMBDA r : r.ID = id)
    IN  IF Len(hit) = 0
        THEN [found |-> FALSE, txn |-> NoTxn]
        ELSE [found |-> TRUE, txn |-> hit[1]]

\* mutant of Create: the id is one more than the largest id of a live row
Create_ReusesId(rows, t, id, now) ==
    LET live == {rows[i].ID : i \in {j \in DOMAIN rows : rows[j].DeletedAt = NULL}}
        next == IF live = {} THEN 1
                ELSE 1 + CHOOSE m \in live : \A n \in live : m >= n
    IN  Append(rows, [t EXCEPT !.ID = next, !.CreatedAt = now, !.UpdatedAt = now])

\* db.Create(transaction): the insert assigns the id and both timestamps
Create(rows, t, id, now) ==
    Append(rows, [t EXCEPT !.ID = id, !.CreatedAt = now, !.UpdatedAt = now])

\* the rows with the row at position i replaced by t
Replace(rows, i, t) == [rows EXCEPT ![i] = t]

\* positions of the live rows of primary key id
LiveAt(rows, id) ==
    {i \in DOMAIN rows : rows[i].ID = id /\ rows[i].DeletedAt = NULL}

\* positions of the rows of primary key id, deleted ones too
At(rows, id) == {i \in DOMAIN rows : rows[i].ID = id}

\* mutant of Save: the UPDATE is conditional on the row's updated_at being
\* the one that was fetched
Save_IfUnchanged(rows, t, now) ==
    LET same == {i \in LiveAt(rows, t.ID) : rows[i].UpdatedAt = t.UpdatedAt}
    IN  IF same = {}
        THEN rows
        ELSE Replace(rows, CHOOSE i \in same : TRUE,
                     [t EXCEPT !.UpdatedAt = now])

\* db.Save(&transaction), the primary key set: UPDATE of every column of
\* the live row of that key, updated_at set to now.  When the UPDATE
\* touches no row Save falls back to an insert that, on a duplicate key,
\* overwrites every column but the key and created_at.
Save(rows, t, now) ==
    LET saved == [t EXCEPT !.UpdatedAt = now]
    IN  IF LiveAt(rows, t.ID) # {}
        THEN LET i == CHOOSE j \in LiveAt(rows, t.ID) : TRUE
             IN  Replace(rows, i, saved)
        ELSE IF At(rows, t.ID) # {}
        THEN LET i == CHOOSE j \in At(rows, t.ID) : TRUE
             IN  Replace(rows, i,
                         [saved EXCEPT !.CreatedAt = rows[i].CreatedAt])
        ELSE Append(rows, saved)

\* db.Delete(&transaction) on a model with a DeletedAt field: UPDATE of
\* deleted_at to now on the live row of that key; no row is removed
Delete(rows, t, now) ==
    IF LiveAt(rows, t.ID) = {}
    THEN rows
    ELSE LET i == CHOOSE j \in LiveAt(rows, t.ID) : TRUE
         IN  [rows EXCEPT ![i].DeletedAt = now]

\* db.Where(cond): the rows that satisfy it
Where(rows, Cond(_)) == SelectSeq(rows, Cond)

\* db.Count(&total)
Count(rows) == Len(rows)

\* Order("created_at DESC"): the orders the engine may return the rows in.
\* Rows of equal created_at come in any order.
RECURSIVE OrderCreatedAtDescOf(_)
OrderCreatedAtDescOf(rowSet) ==
    IF rowSet = {}
    THEN {<<>>}
    ELSE LET newest == {r \in rowSet :
                           \A q \in rowSet : r.CreatedAt >= q.CreatedAt}
         IN  UNION {{<<r>> \o rest : rest \in OrderCreatedAtDescOf(rowSet \ {r})} :
                       r \in newest}

OrderCreatedAtDesc(rows) == OrderCreatedAtDescOf(Range(rows))

\* Offset(offset).Limit(limit) on an ordered result: OFFSET is sent when
\* offset > 0, and an offset past the last row leaves none
OffsetLimit(rows, offset, limit) ==
    LET skip == IF Int64NotPositive(offset) THEN 0
                ELSE IF offset[1] = 0 /\ offset[2] = 0 /\ offset[3] = 0
                        /\ offset[4] < Len(rows)
                     THEN offset[4] ELSE Len(rows)
        to == IF skip + limit < Len(rows) THEN skip + limit ELSE Len(rows)
    IN  SubSeq(rows, skip + 1, to)

\* db.Unscoped(): every row, deleted ones too
Unscoped(rows) == rows

---------------------------------------------------------------------------
(* services.TransactionService *)

\* mutant of Service_CreateTransaction: the status is left to its zero value
Service_CreateTransaction_NoStatus(rows, userID, amount, id, now) ==
    LET transaction == [NoTxn EXCEPT !.UserID = userID, !.Amount = amount]
        stored == Create(rows, transaction, id, now)
    IN  [rows |-> stored, txn |-> stored[Len(stored)]]

\* CreateTransaction: the record is built from the request with status
\* pending and inserted; the inserted record is returned
Service_CreateTransaction(rows, userID, amount, id, now) ==
    LET transaction ==
            [NoTxn EXCEPT !.UserID = userID, !.Amount = amount,
                          !.Status = StatusPending]
        stored == Create(rows, transaction, id, now)
    IN  [rows |-> stored, txn |-> stored[Len(stored)]]

\* GetTransactionByID
Service_GetTransactionByID(rows, id) ==
    LET got == First(rows, id)
    IN  IF ~got.found
        THEN [err |-> "transaction not found", txn |-> NoTxn]
        ELSE [err |-> "", txn |-> got.txn]

\* mutant of Service_UpdateTransaction: a new record carrying the id and the
\* status is saved in place of the fetched one
Service_UpdateTransaction_NewRecord(rows, id, status, now) ==
    LET got == First(rows, id)
    IN  IF ~got.found
        THEN [err |-> "transaction not found", txn |-> NoTxn, rows |-> rows]
        ELSE LET transaction == [NoTxn EXCEPT !.ID = id, !.Status = status]
                 stored == Save(rows, transaction, now)
             IN  [err |-> "", rows |-> stored,
                  txn |-> [transaction EXCEPT !.UpdatedAt = now]]

\* mutant of Service_UpdateTransaction: a record that has left pending is
\* not set back to it
Service_UpdateTransaction_NoReopen(rows, id, status, now) ==
    LET got == First(rows, id)
    IN  IF ~got.found
        THEN [err |-> "transaction not found", txn |-> NoTxn, rows |-> rows]
        ELSE LET transaction ==
                     IF status = StatusPending /\ got.txn.Status # StatusPending
                     THEN got.txn
                     ELSE [got.txn EXCEPT !.Status = status]
                 stored == Save(rows, transaction, now)
             IN  [err |-> "", rows |-> stored,
                  txn |-> [transaction EXCEPT !.UpdatedAt = now]]

\* UpdateTransaction: the record is fetched, its status is set to the
\* request's and the whole record is saved
Service_UpdateTransaction(rows, id, status, now) ==
    LET got == First(rows, id)
    IN  IF ~got.found
        THEN [err |-> "transaction not found", txn |-> NoTxn, rows |-> rows]
        ELSE LET transaction == [got.txn EXCEPT !.Status = status]
                 stored == Save(rows, transaction, now)
             IN  [err |-> "", rows |-> stored,
                  txn |-> [transaction EXCEPT !.UpdatedAt = now]]

\* mutant of Service_DeleteTransaction: when no live record has the id, the
\* deletion marker of a deleted one is set anew before not-found is returned
Service_DeleteTransaction_MarksAgain(rows, id, now) ==
    LET got == First(rows, id)
    IN  IF ~got.found
        THEN [err |-> "transaction not found",
              rows |-> [i \in DOMAIN rows |->
                           IF rows[i].ID = id
                           THEN [rows[i] EXCEPT !.DeletedAt = now]
                           ELSE rows[i]]]
        ELSE [err |-> "", rows |-> Delete(rows, got.txn, now)]

\* DeleteTransaction: the record is fetched and soft-deleted
Service_DeleteTransaction(rows, id, now) ==
    LET got == First(rows, id)
    IN  IF ~got.found
        THEN [err |-> "transaction not found", rows |-> rows]
        ELSE [err |-> "", rows |-> Delete(rows, got.txn, now)]

\* the default page size
DefaultLimit == 10
\* the default page
DefaultPage == 1

\* mutant of CeilDiv: integer division in place of the ceiling
CeilDiv_Floor(total, limit) == total \div limit

\* int(math.Ceil(float64(total) / float64(limit))), limit > 0
CeilDiv(total, limit) ==
    IF total % limit = 0 THEN total \div limit ELSE total \div limit + 1

\* mutant of Filtered: the status filter is dropped
Filtered_NoStatus(rows, userID, status) ==
    IF userID # 0
    THEN SelectSeq(Live(rows), LAMBDA r : r.UserID = userID)
    ELSE Live(rows)

\* mutant of Filtered: deleted rows are counted and paged too
Filtered_Unscoped(rows, userID, status) ==
    LET byUser == IF userID # 0
                  THEN SelectSeq(rows, LAMBDA r : r.UserID = userID)
                  ELSE rows
    IN  IF status # ""
        THEN SelectSeq(byUser, LAMBDA r : r.Status = status)
        ELSE byUser

\* the rows GetTransactions counts and pages: the live rows that pass the
\* filters, a filter being applied when its field is not the zero value
Filtered(rows, userID, status) ==
    LET all == Live(rows)
        byUser == IF userID # 0
                  THEN Where(all, LAMBDA r : r.UserID = userID)
                  ELSE all
    IN  IF status # ""
        THEN Where(byUser, LAMBDA r : r.Status = status)
        ELSE byUser

\* GetTransactions: the responses it may return (one for each order the
\* engine may return rows of equal created_at in).  The page is an Int64;
\* the limits sent are below 2^15 and are held as plain integers.
Service_GetTransactions(rows, userID, status, qPage, qLimit) ==
    LET matching == Filtered(rows, userID, status)
        total == Count(matching)
        limit == IF qLimit <= 0 THEN DefaultLimit ELSE qLimit
        page == IF Int64NotPositive(qPage) THEN Int64(DefaultPage) ELSE qPage
        offset == Int64Mul(Int64Dec(page), limit)
    IN  {[NoResp EXCEPT !.code = 200, !.svc = "ok",
                        !.data = OffsetLimit(ordered, offset, limit),
                        !.total = total, !.page = page, !.limit = limit,
                        !.totalPages = CeilDiv(total, limit)] :
            ordered \in OrderCreatedAtDesc(matching)}

\* 24 * time.Hour, in ticks of the clock
Day == 2

\* time.Now().UTC().Truncate(24 * time.Hour): the midnight before now
Truncate(now) == now - (now % Day)

\* SUM(amount): the sum of the amounts, 0 (the zero value scanned from
\* NULL) when there is no row
RECURSIVE SumAmount(_)
SumAmount(rows) ==
    IF Len(rows) = 0 THEN 0 ELSE rows[1].Amount + SumAmount(Tail(rows))

\* AVG(amount): the sum over the number of rows, 0 (from NULL) when there
\* is no row
AvgAmount(rows) ==
    IF Len(rows) = 0 THEN Quotient(0, 1)
    ELSE Quotient(SumAmount(rows), Len(rows))

\* mutant of SuccessToday: a record created at midnight is left out
SuccessToday_AfterMidnight(rows, now) ==
    Where(Live(rows),
          LAMBDA r : /\ r.Status = StatusSuccess
                     /\ r.CreatedAt > Truncate(now)
                     /\ r.CreatedAt < Truncate(now) + Day)

\* the live rows of status success created today:
\* status = ? AND created_at >= today AND created_at < tomorrow
SuccessToday(rows, now) ==
    LET today == Truncate(now)
        tomorrow == today + Day
    IN  Where(Live(rows),
              LAMBDA r : /\ r.Status = StatusSuccess
                         /\ r.CreatedAt >= today
                         /\ r.CreatedAt < tomorrow)

\* the live rows of status success: status = ?
Success(rows) == Where(Live(rows), LAMBDA r : r.Status = StatusSuccess)

\* mutant of TotalTransactions: deleted rows are counted too
TotalTransactions_Unscoped(rows) == Count(Unscoped(rows))

\* Model(&Transaction{}).Count(&totalTransactions)
TotalTransactions(rows) == Count(Live(rows))

\* mutant of TotalAmount: the status is not looked at
TotalAmount_AllStatuses(rows) == SumAmount(Live(rows))

\* Select("SUM(amount) as total_amount").Where("status = ?", success)
TotalAmount(rows) == SumAmount(Success(rows))

\* mutant of AverageAmountPerUser: the mean of the means of each user
AverageAmountPerUser_ByUser(rows) ==
    LET users == {Success(rows)[i].UserID : i \in DOMAIN Success(rows)}
        Of(u) == Where(Success(rows), LAMBDA r : r.UserID = u)
        \* every user's mean over the common denominator 12
        scaled == [u \in users |-> (12 * SumAmount(Of(u))) \div Len(Of(u))]
        RECURSIVE Total(_)
        Total(us) == IF us = {} THEN 0
                     ELSE LET u == CHOOSE x \in us : TRUE
                          IN  scaled[u] + Total(us \ {u})
    IN  IF users = {} THEN Quotient(0, 1)
        ELSE Quotient(Total(users), 12 * Cardinality(users))

\* Select("AVG(amount) as avg_amount").Where("status = ?", success)
AverageAmountPerUser(rows) == AvgAmount(Success(rows))

\* mutant of StatusDistribution: every status of the enum is a key
StatusDistribution_EveryStatus(rows) ==
    {<<s, Count(Where(Live(rows), LAMBDA r : r.Status = s))>> : s \in Statuses}

\* mutant of StatusDistribution: deleted rows are counted too
StatusDistribution_Unscoped(rows) ==
    LET present == {rows[i].Status : i \in DOMAIN rows}
    IN  {<<s, Count(Where(rows, LAMBDA r : r.Status = s))>> : s \in present}

\* Select("status, COUNT(*) as count").Group("status"), and the map built
\* from the result: one key for each status a live row has
StatusDistribution(rows) ==
    LET present == {Live(rows)[i].Status : i \in DOMAIN Live(rows)}
    IN  {<<s, Count(Where(Live(rows), LAMBDA r : r.Status = s))>> :
            s \in present}

\* mutant of RecentTransactions: deleted rows are listed too
RecentTransactions_Unscoped(rows) ==
    {SubSeq(ordered, 1, IF Len(ordered) < 10 THEN Len(ordered) ELSE 10) :
        ordered \in OrderCreatedAtDesc(Unscoped(rows))}

\* Order("created_at DESC").Limit(10).Find(&recentTransactions): the
\* results the engine may return
RecentTransactions(rows) ==
    {SubSeq(ordered, 1, IF Len(ordered) < 10 THEN Len(ordered) ELSE 10) :
        ordered \in OrderCreatedAtDesc(Live(rows))}

\* GetDashboardSummary: the summaries it may return
Service_GetDashboardSummary(rows, now) ==
    {[TotalSuccessToday |-> Count(SuccessToday(rows, now)),
      TotalTransactions |-> TotalTransactions(rows),
      AverageAmountPerUser |-> AverageAmountPerUser(rows),
      TotalAmount |-> TotalAmount(rows),
      TotalAmountToday |-> SumAmount(SuccessToday(rows, now)),
      StatusDistribution |-> StatusDistribution(rows),
      RecentTransactions |-> recent] :
        recent \in RecentTransactions(rows)}

---------------------------------------------------------------------------
(* strconv.ParseUint(idStr, 10, 32) *)

DigitVal(c) == (CHOOSE n \in 1..10 : DigitChars[n] = c) - 1
IsDigit(c) == \E n \in 1..10 : DigitChars[n] = c

\* (1<<32 - 1) / 10 and (1<<32 - 1) % 10: n*10 + d exceeds the largest
\* 32-bit value when n is above the first, or equal to it with d above the
\* second
MaxUint32Div10 == 429496729
MaxUint32Mod10 == 5

RECURSIVE ParseDigits(_, _, _)
ParseDigits(str, i, n) ==
    IF i > Len(str)
    THEN [err |-> "", val |-> n]
    ELSE IF ~IsDigit(str[i])
    THEN [err |-> "syntax", val |-> 0]
    ELSE LET d == DigitVal(str[i])
         IN  IF n > MaxUint32Div10
                \/ (n = MaxUint32Div10 /\ d > MaxUint32Mod10)
             THEN [err |-> "range", val |-> 0]
             ELSE ParseDigits(str, i + 1, n * 10 + d)

\* mutant of ParseUint: a text that does not parse is taken for 0
ParseUint_ErrorIgnored(str) ==
    LET parsed == IF Len(str) = 0
                  THEN [err |-> "syntax", val |-> 0]
                  ELSE ParseDigits(str, 1, 0)
    IN  [err |-> "", val |-> parsed.val]

ParseUint(str) ==
    IF Len(str) = 0
    THEN [err |-> "syntax", val |-> 0]
    ELSE ParseDigits(str, 1, 0)

---------------------------------------------------------------------------
(* handlers.TransactionHandler: a request to the outcome, [rows, autoInc,   *)
(* resp], on the table rows with counter inc at time now                    *)

\* the outcome of a handler that answers without a call of the service
\* that writes
Unchanged(rows, inc, response) ==
    [rows |-> rows, autoInc |-> inc, resp |-> response]

CreateTransactionOutcome(rows, inc, now, r) ==
    LET userID == BindUint(r.user)
        amount == BindNumber(r.amount)
    IN  IF r.malformed \/ ~userID.ok \/ ~amount.ok
        THEN Unchanged(rows, inc, SendValidationError)
        ELSE IF ~(Required(userID.val) /\ Required(amount.val)
                  /\ GtZero(amount.val))
        THEN Unchanged(rows, inc, SendValidationError)
        ELSE LET done == Service_CreateTransaction(rows, userID.val,
                                                   amount.val, inc, now)
             IN  [rows |-> done.rows, autoInc |-> inc + 1,
                  resp |-> [NoResp EXCEPT !.code = 201, !.svc = "ok",
                                          !.txn = done.txn]]

GetTransactionByIDOutcome(rows, inc, now, r) ==
    LET id == ParseUint(r.idStr)
    IN  IF id.err # ""
        THEN Unchanged(rows, inc, SendError(400, "invalid_id"))
        ELSE LET got == Service_GetTransactionByID(rows, id.val)
             IN  IF got.err = "transaction not found"
                 THEN Unchanged(rows, inc,
                          [SendError(404, "not_found") EXCEPT
                               !.svc = "not_found"])
                 ELSE Unchanged(rows, inc,
                          [NoResp EXCEPT !.code = 200, !.svc = "ok",
                                         !.txn = got.txn])

UpdateTransactionOutcome(rows, inc, now, r) ==
    LET id == ParseUint(r.idStr)
        status == BindString(r.status)
    IN  IF id.err # ""
        THEN Unchanged(rows, inc, SendError(400, "invalid_id"))
        ELSE IF r.malformed \/ ~status.ok
        THEN Unchanged(rows, inc, SendValidationError)
        ELSE IF ~RequiredOneOf(status.val)
        THEN Unchanged(rows, inc, SendValidationError)
        ELSE LET done == Service_UpdateTransaction(rows, id.val,
                                                   status.val, now)
             IN  IF done.err = "transaction not found"
                 THEN [rows |-> done.rows, autoInc |-> inc,
                       resp |-> [SendError(404, "not_found") EXCEPT
                                     !.svc = "not_found"]]
                 ELSE [rows |-> done.rows, autoInc |-> inc,
                       resp |-> [NoResp EXCEPT !.code = 200, !.svc = "ok",
                                               !.txn = done.txn]]

DeleteTransactionOutcome(rows, inc, now, r) ==
    LET id == ParseUint(r.idStr)
    IN  IF id.err # ""
        THEN Unchanged(rows, inc, SendError(400, "invalid_id"))
        ELSE LET done == Service_DeleteTransaction(rows, id.val, now)
             IN  IF done.err = "transaction not found"
                 THEN [rows |-> done.rows, autoInc |-> inc,
                       resp |-> [SendError(404, "not_found") EXCEPT
                                     !.svc = "not_found"]]
                 ELSE [rows |-> done.rows, autoInc |-> inc,
                       resp |-> [NoResp EXCEPT !.code = 204, !.svc = "ok"]]

\* the outcomes of GET /transactions
GetTransactionsOutcomes(rows, inc, now, r) ==
    LET userID == BindUint(r.qUser)
        status == BindString(r.qStatus)
        page == BindInt(r.qPage)
        limit == BindNumber(r.qLimit)
    IN  IF ~userID.ok \/ ~status.ok \/ ~page.ok \/ ~limit.ok
        THEN {Unchanged(rows, inc, SendValidationError)}
        ELSE IF status.val # "" /\ status.val # StatusPending
                /\ status.val # StatusSuccess /\ status.val # StatusFailed
        THEN {Unchanged(rows, inc, SendError(400, "invalid_status"))}
        ELSE {Unchanged(rows, inc, response) :
                response \in Service_GetTransactions(rows, userID.val,
                                 status.val, page.val, limit.val)}

\* the outcomes of GET /dashboard/summary
GetDashboardSummaryOutcomes(rows, inc, now, r) ==
    {Unchanged(rows, inc, [NoResp EXCEPT !.code = 200, !.svc = "ok",
                                         !.summary = summary]) :
        summary \in Service_GetDashboardSummary(rows, now)}

\* GET /health: 200 with the service's name and the time; the table is not
\* read
HealthCheckOutcome(rows, inc, now, r) ==
    Unchanged(rows, inc, [NoResp EXCEPT !.code = 200])

---------------------------------------------------------------------------
(* Requests *)

\* user_id, status, page and limit of a query string
QUsers == {Absent} \cup {Num(n) : n \in {0} \cup Users}
QStatuses == {Absent} \cup {Str(s) : s \in {"invalid"} \cup Statuses}
QPages ==
    {Absent} \cup {Num(n) : n \in {0 - 1, 1, 2}}
        \cup {Wide(k) : k \in DOMAIN WidePages}
QLimits == {Absent} \cup {Num(n) : n \in {0 - 1, 1, 2}}

ListRequests ==
    {[NoReq EXCEPT !.op = "list", !.qUser = Str("x")],
     [NoReq EXCEPT !.op = "list", !.qPage = Str("x")],
     [NoReq EXCEPT !.op = "list", !.qStatus = Str("Pending")],
     [NoReq EXCEPT !.op = "list", !.qStatus = Str("")]}
        \cup {[NoReq EXCEPT !.op = "list", !.qUser = u, !.qStatus = s,
                            !.qPage = p, !.qLimit = l] :
                u \in QUsers, s \in QStatuses, p \in QPages, l \in QLimits}

GetByIDRequests == {[NoReq EXCEPT !.op = "get", !.idStr = i] : i \in IdStrs}

UpdateRequests ==
    {[NoReq EXCEPT !.op = "update", !.idStr = i, !.malformed = TRUE] :
        i \in IdStrs}
        \cup {[NoReq EXCEPT !.op = "update", !.idStr = i, !.status = f] :
                i \in IdStrs, f \in StatusFields}

DashboardRequests == {[NoReq EXCEPT !.op = "dashboard"]}

HealthRequests == {[NoReq EXCEPT !.op = "health"]}

DeleteRequests ==
    {[NoReq EXCEPT !.op = "delete", !.idStr = i] : i \in IdStrs}

CreateRequests ==
    {[NoReq EXCEPT !.op = "create", !.malformed = TRUE]}
        \cup {[NoReq EXCEPT !.op = "create", !.user = u, !.amount = a] :
                u \in UserFields, a \in AmountFields}

---------------------------------------------------------------------------
(* Requests served concurrently.  gin serves every request in a goroutine  *)
(* of its own; the service's statements on the table are separate steps.   *)

\* the goroutines of the model
Workers == {1, 2}

\* a goroutine that serves no request; of one that does: the step it is
\* at, its request, the record it fetched, its response, and the place of
\* its write among the writes so far (0 before it has written); of one
\* that serves the dashboard also the time.Now() it read, and the number of
\* writes made to the table when the first and when the last of its
\* queries ran
NoWorker ==
    [step |-> "idle", req |-> NoReq, txn |-> NoTxn, resp |-> NoResp,
     order |-> 0, now |-> 0, from |-> 0, upto |-> 0]

NoInflight == [w \in Workers |-> NoWorker]

---------------------------------------------------------------------------
(* The state machine *)

Init ==
    /\ db = <<>>
    /\ autoInc = 1
    /\ clock = 0
    /\ pc = "idle"
    /\ req = NoReq
    /\ resp = NoResp
    /\ pre = <<>>
    /\ inflight = NoInflight

\* the handler's outcome becomes the state; a request that would insert
\* into a full table is not taken
Serve(r, out) ==
    /\ Len(out.rows) > Len(db) => Len(out.rows) <= MaxRows
    /\ db' = out.rows
    /\ autoInc' = out.autoInc
    /\ resp' = out.resp
    /\ req' = r
    /\ pre' = db
    /\ pc' = "responded"
    /\ UNCHANGED <<clock, inflight>>

\* POST /transactions
CreateTransaction ==
    /\ pc = "idle"
    /\ \E r \in CreateRequests :
          Serve(r, CreateTransactionOutcome(db, autoInc, clock, r))

\* GET /transactions/:id
GetTransactionByID ==
    /\ pc = "idle"
    /\ \E r \in GetByIDRequests :
          Serve(r, GetTransactionByIDOutcome(db, autoInc, clock, r))

\* PUT /transactions/:id
UpdateTransaction ==
    /\ pc = "idle"
    /\ \E r \in UpdateRequests :
          Serve(r, UpdateTransactionOutcome(db, autoInc, clock, r))

\* DELETE /transactions/:id
DeleteTransaction ==
    /\ pc = "idle"
    /\ \E r \in DeleteRequests :
          Serve(r, DeleteTransactionOutcome(db, autoInc, clock, r))

\* GET /transactions
GetTransactions ==
    /\ pc = "idle"
    /\ \E r \in ListRequests :
          \E out \in GetTransactionsOutcomes(db, autoInc, clock, r) :
              Serve(r, out)

\* GET /dashboard/summary
GetDashboardSummary ==
    /\ pc = "idle"
    /\ \E r \in DashboardRequests :
          \E out \in GetDashboardSummaryOutcomes(db, autoInc, clock, r) :
              Serve(r, out)

\* GET /health
HealthCheck ==
    /\ pc = "idle"
    /\ \E r \in HealthRequests :
          Serve(r, HealthCheckOutcome(db, autoInc, clock, r))

\* the response is delivered; the server waits for the next request
Complete ==
    /\ pc = "responded"
    /\ pc' = "idle"
    /\ req' = NoReq
    /\ resp' = NoResp
    /\ pre' = <<>>
    /\ UNCHANGED <<db, autoInc, clock, inflight>>

\* time passes between requests
Tick ==
    /\ pc = "idle"
    /\ clock < MaxClock
    /\ clock' = clock + 1
    /\ UNCHANGED <<db, autoInc, pc, req, resp, pre, inflight>>

Next ==
    \/ CreateTransaction
    \/ GetTransactionByID
    \/ UpdateTransaction
    \/ DeleteTransaction
    \/ GetTransactions
    \/ GetDashboardSummary
    \/ HealthCheck
    \/ Complete
    \/ Tick

Spec == Init /\ [][Next]_vars

---------------------------------------------------------------------------
(* Requests served concurrently: each goroutine serves one request, and    *)
(* every statement the service runs on the table is a step that those of   *)
(* the other goroutine can come between.  pre is the table at the start.   *)

\* the tables at the start: a live record of id 1 in any status, alone or
\* beside a second record, live or deleted
ConcTables ==
    LET first(s) == [ID |-> 1, UserID |-> 1, Amount |-> 2, Status |-> s,
                     CreatedAt |-> 0, UpdatedAt |-> 0, DeletedAt |-> NULL]
        second(d) == [ID |-> 2, UserID |-> 2, Amount |-> 1,
                      Status |-> StatusPending,
                      CreatedAt |-> 0, UpdatedAt |-> 0, DeletedAt |-> d]
    IN  {<<first(s)>> : s \in Statuses}
            \cup {<<first(s), second(d)>> : s \in Statuses, d \in {NULL, 0}}

InitConc ==
    /\ db \in ConcTables
    /\ autoInc = Len(db) + 1
    /\ clock = 0
    /\ pc = "idle"
    /\ req = NoReq
    /\ resp = NoResp
    /\ pre = db
    /\ inflight = NoInflight

\* the number of writes to the table so far
Writes == Cardinality({w \in Workers : inflight[w].order > 0})

\* PUT /transactions/:id arrives: the handler parses the id, binds and
\* validates the body, and answers 400 or calls the service
UpdateBegin(w) ==
    /\ inflight[w].step = "idle"
    /\ \E r \in UpdateRequests :
          LET id == ParseUint(r.idStr)
              status == BindString(r.status)
          IN  inflight' =
                [inflight EXCEPT ![w] =
                    IF id.err # ""
                    THEN [NoWorker EXCEPT !.step = "done", !.req = r,
                              !.resp = SendError(400, "invalid_id")]
                    ELSE IF r.malformed \/ ~status.ok
                            \/ ~RequiredOneOf(status.val)
                    THEN [NoWorker EXCEPT !.step = "done", !.req = r,
                              !.resp = SendValidationError]
                    ELSE [NoWorker EXCEPT !.step = "fetch", !.req = r]]
    /\ UNCHANGED <<db, autoInc, clock, pc, req, resp, pre>>

\* UpdateTransaction, s.db.First(&transaction, id)
UpdateFetch(w) ==
    /\ inflight[w].step = "fetch"
    /\ LET got == First(db, ParseUint(inflight[w].req.idStr).val)
       IN  inflight' =
             [inflight EXCEPT ![w] =
                 IF ~got.found
                 THEN [@ EXCEPT !.step = "done",
                           !.resp = [SendError(404, "not_found") EXCEPT
                                         !.svc = "not_found"]]
                 ELSE [@ EXCEPT !.step = "save", !.txn = got.txn]]
    /\ UNCHANGED <<db, autoInc, clock, pc, req, resp, pre>>

\* UpdateTransaction, transaction.Status = req.Status and
\* s.db.Save(&transaction); the handler answers 200
UpdateSave(w) ==
    /\ inflight[w].step = "save"
    /\ LET transaction ==
               [inflight[w].txn EXCEPT
                    !.Status = BindString(inflight[w].req.status).val]
       IN  /\ db' = Save(db, transaction, clock)
           /\ inflight' =
                 [inflight EXCEPT ![w] =
                     [@ EXCEPT !.step = "done", !.order = Writes + 1,
                         !.resp = [NoResp EXCEPT !.code = 200, !.svc = "ok",
                                       !.txn = [transaction EXCEPT
                                                    !.UpdatedAt = clock]]]]
    /\ UNCHANGED <<autoInc, clock, pc, req, resp, pre>>

\* DELETE /transactions/:id arrives: the handler parses the id and answers
\* 400 or calls the service
DeleteBegin(w) ==
    /\ inflight[w].step = "idle"
    /\ \E r \in DeleteRequests :
          inflight' =
            [inflight EXCEPT ![w] =
                IF ParseUint(r.idStr).err # ""
                THEN [NoWorker EXCEPT !.step = "done", !.req = r,
                          !.resp = SendError(400, "invalid_id")]
                ELSE [NoWorker EXCEPT !.step = "deleteFetch", !.req = r]]
    /\ UNCHANGED <<db, autoInc, clock, pc, req, resp, pre>>

\* DeleteTransaction, s.db.First(&transaction, id)
DeleteFetch(w) ==
    /\ inflight[w].step = "deleteFetch"
    /\ LET got == First(db, ParseUint(inflight[w].req.idStr).val)
       IN  inflight' =
             [inflight EXCEPT ![w] =
                 IF ~got.found
                 THEN [@ EXCEPT !.step = "done",
                           !.resp = [SendError(404, "not_found") EXCEPT
                                         !.svc = "not_found"]]
                 ELSE [@ EXCEPT !.step = "delete", !.txn = got.txn]]
    /\ UNCHANGED <<db, autoInc, clock, pc, req, resp, pre>>

\* DeleteTransaction, s.db.Delete(&transaction): the error is looked at,
\* the number of rows the statement touched is not; the handler answers 204
DeleteSoftDelete(w) ==
    /\ inflight[w].step = "delete"
    /\ db' = Delete(db, inflight[w].txn, clock)
    /\ inflight' =
          [inflight EXCEPT ![w] =
              [@ EXCEPT !.step = "done", !.order = Writes + 1,
                  !.resp = [NoResp EXCEPT !.code = 204, !.svc = "ok"]]]
    /\ UNCHANGED <<autoInc, clock, pc, req, resp, pre>>

\* POST /transactions: the handler binds and validates the body and
\* answers 400, or the service inserts the record with one statement
CreateServe(w) ==
    /\ inflight[w].step = "idle"
    /\ \E r \in CreateRequests :
          LET out == CreateTransactionOutcome(db, autoInc, clock, r)
          IN  /\ Len(out.rows) > Len(db) => Len(out.rows) <= MaxRows
              /\ db' = out.rows
              /\ autoInc' = out.autoInc
              /\ inflight' =
                    [inflight EXCEPT ![w] =
                        [NoWorker EXCEPT !.step = "done", !.req = r,
                            !.resp = out.resp,
                            !.order = IF out.resp.code = 201
                                      THEN Writes + 1 ELSE 0]]
    /\ UNCHANGED <<clock, pc, req, resp, pre>>

\* GET /dashboard/summary arrives: the service reads the time
DashboardBegin(w) ==
    /\ inflight[w].step = "idle"
    /\ \E r \in DashboardRequests :
          inflight' =
            [inflight EXCEPT ![w] =
                [NoWorker EXCEPT !.step = "countToday", !.req = r,
                                 !.now = clock]]
    /\ UNCHANGED <<db, autoInc, clock, pc, req, resp, pre>>

\* a query of GetDashboardSummary: the goroutine at step at writes the
\* field it read into its summary and moves to step to
DashboardQuery(w, at, to, summary) ==
    /\ inflight[w].step = at
    /\ inflight' =
          [inflight EXCEPT ![w] =
              [@ EXCEPT !.step = to, !.resp.summary = summary]]
    /\ UNCHANGED <<db, autoInc, clock, pc, req, resp, pre>>

\* Count(&totalSuccessToday), the first query
DashboardCountToday(w) ==
    /\ inflight[w].step = "countToday"
    /\ inflight' =
          [inflight EXCEPT ![w] =
              [@ EXCEPT !.step = "count", !.from = Writes,
                  !.resp.summary.TotalSuccessToday =
                      Count(SuccessToday(db, inflight[w].now))]]
    /\ UNCHANGED <<db, autoInc, clock, pc, req, resp, pre>>

\* Count(&totalTransactions)
DashboardCount(w) ==
    DashboardQuery(w, "count", "avg",
        [inflight[w].resp.summary EXCEPT
             !.TotalTransactions = TotalTransactions(db)])

\* Select("AVG(amount) as avg_amount")
DashboardAvg(w) ==
    DashboardQuery(w, "avg", "sum",
        [inflight[w].resp.summary EXCEPT
             !.AverageAmountPerUser = AverageAmountPerUser(db)])

\* Select("SUM(amount) as total_amount")
DashboardSum(w) ==
    DashboardQuery(w, "sum", "sumToday",
        [inflight[w].resp.summary EXCEPT !.TotalAmount = TotalAmount(db)])

\* Select("SUM(amount) as total_amount") of today
DashboardSumToday(w) ==
    DashboardQuery(w, "sumToday", "group",
        [inflight[w].resp.summary EXCEPT
             !.TotalAmountToday =
                 SumAmount(SuccessToday(db, inflight[w].now))])

\* Select("status, COUNT(*) as count").Group("status")
DashboardGroup(w) ==
    DashboardQuery(w, "group", "recent",
        [inflight[w].resp.summary EXCEPT
             !.StatusDistribution = StatusDistribution(db)])

\* Order("created_at DESC").Limit(10).Find, the last query; the handler
\* answers 200 with the summary
DashboardRecent(w) ==
    /\ inflight[w].step = "recent"
    /\ \E recent \in RecentTransactions(db) :
          inflight' =
            [inflight EXCEPT ![w] =
                [@ EXCEPT !.step = "done", !.upto = Writes,
                    !.resp = [@ EXCEPT !.code = 200, !.svc = "ok",
                                  !.summary.RecentTransactions = recent]]]
    /\ UNCHANGED <<db, autoInc, clock, pc, req, resp, pre>>

NextConc ==
    \/ \E w \in Workers : UpdateBegin(w)
    \/ \E w \in Workers : UpdateFetch(w)
    \/ \E w \in Workers : UpdateSave(w)
    \/ \E w \in Workers : DeleteBegin(w)
    \/ \E w \in Workers : DeleteFetch(w)
    \/ \E w \in Workers : DeleteSoftDelete(w)
    \/ \E w \in Workers : CreateServe(w)
    \/ \E w \in Workers : DashboardBegin(w)
    \/ \E w \in Workers : DashboardCountToday(w)
    \/ \E w \in Workers : DashboardCount(w)
    \/ \E w \in Workers : DashboardAvg(w)
    \/ \E w \in Workers : DashboardSum(w)
    \/ \E w \in Workers : DashboardSumToday(w)
    \/ \E w \in Workers : DashboardGroup(w)
    \/ \E w \in Workers : DashboardRecent(w)
    \/ Tick

SpecConc == InitConc /\ [][NextConc]_vars

---------------------------------------------------------------------------
(* Listing alone, on larger tables.  GetTransactions only reads the table, *)
(* so it is also checked from tables of up to one record more than the     *)
(* default page size.  Each is a table the handlers above build: ids 1..n  *)
(* in creation order, created two to a tick, every record that is not      *)
(* pending updated one tick after its creation, every deleted one deleted  *)
(* one tick after its creation.                                            *)

\* one record more than a default page holds
BulkRows == DefaultLimit + 1

StatusOf(k) ==
    CASE k % 3 = 0 -> StatusPending
      [] k % 3 = 1 -> StatusSuccess
      [] OTHER -> StatusFailed

\* row i of the table of variant v; variant 0 has no deleted row, the others
\* have every third row deleted
BulkRow(i, v) ==
    LET created == i \div 2
    IN  [ID |-> i,
         UserID |-> 1 + ((i + v) % 2),
         Amount |-> 1 + (i % 2),
         Status |-> StatusOf(i + v),
         CreatedAt |-> created,
         UpdatedAt |-> IF StatusOf(i + v) = StatusPending
                       THEN created ELSE created + 1,
         DeletedAt |-> IF v > 0 /\ (i + v) % 3 = 0
                       THEN created + 1 ELSE NULL]

BulkTables == {[i \in 1..n |-> BulkRow(i, v)] : n \in 0..BulkRows, v \in 0..3}

InitList ==
    /\ db \in BulkTables
    /\ autoInc = Len(db) + 1
    /\ clock = BulkRows
    /\ pc = "idle"
    /\ req = NoReq
    /\ resp = NoResp
    /\ pre = <<>>
    /\ inflight = NoInflight

NextList ==
    \/ GetTransactions
    \/ Complete

SpecList == InitList /\ [][NextList]_vars

---------------------------------------------------------------------------
(* The dashboard alone, on the larger tables and over three days.  The    *)
(* summary only reads the table and the wall clock.  The wall clock is     *)
(* read afresh by every request and can be set back, so the summary is     *)
(* taken at every tick of the three days, also one before a record's       *)
(* created_at.                                                             *)

InitDash ==
    /\ db \in BulkTables
    /\ autoInc = Len(db) + 1
    /\ clock \in 0..(3 * Day)
    /\ pc = "idle"
    /\ req = NoReq
    /\ resp = NoResp
    /\ pre = <<>>
    /\ inflight = NoInflight

NextDash ==
    \/ GetDashboardSummary
    \/ Complete

SpecDash == InitDash /\ [][NextDash]_vars

---------------------------------------------------------------------------
(* Vocabulary of the properties *)

\* a response to a request of kind op is out
Responded(op) == pc = "responded" /\ req.op = op

\* the field carries the number n
IsNum(f, n) == f.kind = "num" /\ f.num = n

\* the ids of the rows, deleted ones too
IDs(rows) == {rows[i].ID : i \in DOMAIN rows}

\* the positions of the live rows
LivePositions(rows) == {i \in DOMAIN rows : rows[i].DeletedAt = NULL}

\* the decimal text of a one-digit id
IdString(n) == <<DigitChars[n + 1]>>

\* the row of the table the path parameter names, if any
Named(rows, str) == {i \in DOMAIN rows : IdString(rows[i].ID) = str}

\* the text is one or more decimal digits
IsNumeric(str) ==
    /\ Len(str) > 0
    /\ \A i \in DOMAIN str : \E n \in 1..10 : DigitChars[n] = str[i]

\* the decimal text of the largest 32-bit unsigned value
MaxUint32Str == <<"4", "2", "9", "4", "9", "6", "7", "2", "9", "5">>

\* a, b: digit strings of the same length; a is the larger number
DigitsGreater(a, b) ==
    \E k \in DOMAIN a :
        /\ \A j \in 1..(k - 1) : a[j] = b[j]
        /\ DigitVal(a[k]) > DigitVal(b[k])

\* the text, digits with no leading zeros, is a number of at most 32 bits
FitsUint32(str) ==
    /\ IsNumeric(str)
    /\ \/ Len(str) < Len(MaxUint32Str)
       \/ Len(str) = Len(MaxUint32Str) /\ ~DigitsGreater(str, MaxUint32Str)

\* no live row of the table has the id the path parameter names
NoLiveNamed(rows, str) == Named(rows, str) \cap LivePositions(rows) = {}

\* the body of a PUT passes binding and validation
ValidUpdateBody(r) ==
    /\ ~r.malformed
    /\ r.status.kind = "str"
    /\ r.status.str \in {"pending", "success", "failed"}

\* the query carries a user_id filter, a status filter
GivenUser(r) == r.qUser.kind = "num" /\ r.qUser.num # 0
GivenStatus(r) == r.qStatus.kind = "str" /\ r.qStatus.str # ""

\* the positions of the live rows that pass the filters the query carries
MatchPositions(rows, r) ==
    {i \in LivePositions(rows) :
        /\ GivenUser(r) => rows[i].UserID = r.qUser.num
        /\ GivenStatus(r) => rows[i].Status = r.qStatus.str}

\* the rows at a set of positions
RowsAt(rows, positions) == {rows[i] : i \in positions}

\* the page is one of WidePages
WidePage(r) == r.qPage.kind = "wide"

\* the page and the limit in effect: the query's when positive (the page of
\* a query whose page is not one of WidePages)
EffPage(r) == IF r.qPage.kind = "num" /\ r.qPage.num > 0 THEN r.qPage.num ELSE 1
EffLimit(r) ==
    IF r.qLimit.kind = "num" /\ r.qLimit.num > 0 THEN r.qLimit.num ELSE 10

\* a list request was answered 200
Listed == Responded("list") /\ resp.code = 200

\* a dashboard request was answered 200
Summarised == Responded("dashboard") /\ resp.code = 200

\* the positions of the live rows of status success
SuccessPositions(rows) ==
    {i \in LivePositions(rows) : rows[i].Status = "success"}

\* the midnight before the clock's time
Midnight == Day * (clock \div Day)

\* the positions of the live rows of status success created in
\* [Midnight, Midnight + Day)
TodayPositions(rows) ==
    {i \in SuccessPositions(rows) :
        rows[i].CreatedAt >= Midnight /\ rows[i].CreatedAt < Midnight + Day}

\* the sum of the amounts of the rows at a set of positions
RECURSIVE AmountOver(_, _)
AmountOver(rows, positions) ==
    IF positions = {} THEN 0
    ELSE LET i == CHOOSE j \in positions : TRUE
         IN  rows[i].Amount + AmountOver(rows, positions \ {i})

---------------------------------------------------------------------------
(* Properties *)

\* C1: a POST whose amount is zero or negative, or whose user_id is missing
\* or zero, is answered 400 validation_error, and the table after it is the
\* table before it.
C1_InvalidCreateRejected ==
    (Responded("create")
       /\ (\/ (req.amount.kind = "num" /\ req.amount.num <= 0)
           \/ req.user.kind = "absent"
           \/ IsNum(req.user, 0)))
    => /\ resp.code = 400
       /\ resp.error = "validation_error"
       /\ db = pre

\* C1 witness: a POST of amount 0 for user 1 was refused on a table that
\* holds a record
C1_Witness ==
    /\ Responded("create")
    /\ IsNum(req.amount, 0)
    /\ IsNum(req.user, 1)
    /\ resp.code = 400
    /\ Len(pre) > 0

\* C2: a POST with a positive amount and a non-zero user_id is answered 201
\* with a record whose id is non-zero and was held by no row before, whose
\* user_id and amount are the request's and whose status is pending; and a
\* fetch of that id, right after, returns a record of the same id, user_id,
\* amount and status pending.
C2_ValidCreateSucceeds ==
    (Responded("create") /\ ~req.malformed
       /\ req.user.kind = "num" /\ req.user.num > 0
       /\ req.amount.kind = "num" /\ req.amount.num > 0)
    => /\ resp.code = 201
       /\ resp.txn.ID # 0
       /\ resp.txn.ID \notin IDs(pre)
       /\ resp.txn.UserID = req.user.num
       /\ resp.txn.Amount = req.amount.num
       /\ resp.txn.Status = "pending"
       /\ LET fetch == [NoReq EXCEPT !.op = "get",
                                     !.idStr = IdString(resp.txn.ID)]
              got == GetTransactionByIDOutcome(db, autoInc, clock, fetch).resp
          IN  /\ got.code = 200
              /\ got.txn.ID = resp.txn.ID
              /\ got.txn.UserID = req.user.num
              /\ got.txn.Amount = req.amount.num
              /\ got.txn.Status = "pending"

\* C2 witness: a second record, of user 2 and amount 2, was created
C2_Witness ==
    /\ Responded("create")
    /\ resp.code = 201
    /\ resp.txn.ID = 2
    /\ resp.txn.UserID = 2
    /\ resp.txn.Amount = 2
    /\ Len(pre) = 1

\* C3: once a record is soft-deleted, a fetch, an update and a delete of its
\* id find nothing (the service returns not-found, the handler 404, the table
\* is left as it was), and the row is not purged: a deleted row is still in
\* the table, its deletion marker set, for a query that includes deleted rows.
C3_DeletedStaysDeleted ==
    pc = "responded"
    => /\ \A i \in DOMAIN pre :
              pre[i].DeletedAt # NULL
              => /\ i \in DOMAIN Unscoped(db)
                 /\ Unscoped(db)[i].ID = pre[i].ID
                 /\ Unscoped(db)[i].DeletedAt # NULL
       /\ (req.op = "delete" /\ resp.code = 204)
          => /\ Len(Unscoped(db)) = Len(pre)
             /\ \E i \in Named(Unscoped(db), req.idStr) :
                    db[i].DeletedAt # NULL
             /\ Named(db, req.idStr) \cap LivePositions(db) = {}
       /\ (req.op \in {"get", "update", "delete"} /\ resp.svc # "none"
             /\ \E i \in Named(pre, req.idStr) : pre[i].DeletedAt # NULL)
          => /\ resp.svc = "not_found"
             /\ resp.code = 404
             /\ db = pre

\* C3 witness: an update with a valid status, of the id of a deleted record,
\* was answered 404
C3_Witness ==
    /\ Responded("update")
    /\ req.status = Str("success")
    /\ \E i \in Named(pre, req.idStr) : pre[i].DeletedAt # NULL
    /\ resp.code = 404

\* C4: a successful update changes, in the table, the status and updated_at
\* of the record it names and nothing else: that row keeps its id, user_id,
\* amount, created_at and deletion marker, its updated_at does not go back,
\* and every other row is the same before and after.
C4_UpdateChangesOnlyStatus ==
    (Responded("update") /\ resp.code = 200)
    => /\ Len(db) = Len(pre)
       /\ \E i \in Named(pre, req.idStr) :
              /\ db[i] = [pre[i] EXCEPT !.Status = req.status.str,
                                        !.UpdatedAt = clock]
              /\ db[i].UpdatedAt >= pre[i].UpdatedAt
              /\ resp.txn = db[i]
              /\ \A j \in DOMAIN pre : j # i => db[j] = pre[j]

\* C4 witness: of two records, the first went from pending to failed at a
\* later tick than its creation
C4_Witness ==
    /\ Responded("update")
    /\ resp.code = 200
    /\ Len(pre) = 2
    /\ req.idStr = IdString(1)
    /\ pre[1].Status = "pending"
    /\ db[1].Status = "failed"
    /\ db[1].UpdatedAt > pre[1].UpdatedAt

\* C5 as stated: on GET, PUT and DELETE of /transactions/{id} a non-numeric
\* id is answered 400 with the table neither read nor changed, a numeric id
\* that names no live record is answered 404, and a fetch of such an id
\* returns no record.
C5_AsStated ==
    (pc = "responded" /\ req.op \in {"get", "update", "delete"})
    => /\ ~IsNumeric(req.idStr)
          => resp.code = 400 /\ resp.svc = "none" /\ db = pre
       /\ (IsNumeric(req.idStr) /\ NoLiveNamed(pre, req.idStr))
          => resp.code = 404
       /\ (req.op = "get" /\ NoLiveNamed(pre, req.idStr))
          => resp.code # 200 /\ resp.txn = NoTxn

\* C5, amended: an id that is not a decimal number of at most 32 bits (not
\* digits only, or above 4294967295) is answered 400 invalid_id with the
\* table neither read nor changed; an id in that range that names no live
\* record is answered 404 not_found, on PUT when the body is valid; and a
\* fetch of an id that names no live record returns no record.
C5_InvalidIdAndNotFound ==
    (pc = "responded" /\ req.op \in {"get", "update", "delete"})
    => /\ ~FitsUint32(req.idStr)
          => /\ resp.code = 400
             /\ resp.error = "invalid_id"
             /\ resp.svc = "none"
             /\ db = pre
       /\ (FitsUint32(req.idStr) /\ NoLiveNamed(pre, req.idStr)
             /\ (req.op = "update" => ValidUpdateBody(req)))
          => /\ resp.code = 404
             /\ resp.error = "not_found"
             /\ db = pre
       /\ (req.op = "get" /\ NoLiveNamed(pre, req.idStr))
          => resp.code # 200 /\ resp.txn = NoTxn

\* C5 witness: the fetch of the id of a soft-deleted record was answered 404
C5_Witness ==
    /\ Responded("get")
    /\ \E i \in Named(pre, req.idStr) : pre[i].DeletedAt # NULL
    /\ resp.code = 404
    /\ resp.txn = NoTxn

\* C6 as stated, for a listing with no query parameter at all: it returns
\* all the non-deleted records, and its total is their number, however many
\* there are.
C6_AsStated ==
    (Listed /\ req = [NoReq EXCEPT !.op = "list"])
    => /\ Range(resp.data) = RowsAt(pre, LivePositions(pre))
       /\ resp.total = Cardinality(LivePositions(pre))

\* C6, amended: a listing with no filters returns non-deleted records only,
\* all of them when the page is the first and they are no more than the
\* limit in effect, and its total is the number of non-deleted records.
C6_UnfilteredListing ==
    (Listed /\ req.qUser = Absent /\ req.qStatus = Absent)
    => /\ resp.total = Cardinality(LivePositions(pre))
       /\ Range(resp.data) \subseteq RowsAt(pre, LivePositions(pre))
       /\ (~WidePage(req) /\ EffPage(req) = 1
             /\ Cardinality(LivePositions(pre)) <= EffLimit(req))
          => /\ Range(resp.data) = RowsAt(pre, LivePositions(pre))
             /\ Len(resp.data) = Cardinality(LivePositions(pre))

\* C6 witness: a listing with no parameter at all, of a table of eleven
\* records of which some are deleted, returned every live one
C6_Witness ==
    /\ Listed
    /\ req = [NoReq EXCEPT !.op = "list"]
    /\ Len(pre) = 11
    /\ Cardinality(LivePositions(pre)) < 11
    /\ Range(resp.data) = RowsAt(pre, LivePositions(pre))
    /\ resp.total = Cardinality(LivePositions(pre))

\* C7: a listing with user_id = U and/or status = S returns only live records
\* whose user_id is U (when given) and whose status is S (when given), and
\* its total is the number of the live records that match.
C7_FilteredListing ==
    (Listed /\ (GivenUser(req) \/ GivenStatus(req)))
    => /\ Range(resp.data) \subseteq RowsAt(pre, MatchPositions(pre, req))
       /\ resp.total = Cardinality(MatchPositions(pre, req))

\* C7 witness: both filters given; of two live records of user 1 only one
\* has the status asked for
C7_Witness ==
    /\ Listed
    /\ req.qUser = Num(1)
    /\ req.qStatus = Str("success")
    /\ Len(pre) = 2
    /\ pre[1].UserID = 1 /\ pre[1].Status = "pending" /\ pre[1].DeletedAt = NULL
    /\ pre[2].UserID = 1 /\ pre[2].Status = "success" /\ pre[2].DeletedAt = NULL
    /\ resp.data = <<pre[2]>>
    /\ resp.total = 1

\* C8: with limit = L and page = P, both positive, a listing returns at most
\* L records; total_pages is the least n with n * L >= total, so 0 exactly
\* when total is 0; and total is the number of matching records, whatever P
\* and L.
C8_Pagination ==
    (Listed /\ req.qLimit.kind = "num" /\ req.qLimit.num > 0
       /\ (WidePage(req) \/ (req.qPage.kind = "num" /\ req.qPage.num > 0)))
    => /\ Len(resp.data) <= req.qLimit.num
       /\ resp.totalPages * req.qLimit.num >= resp.total
       /\ resp.total > 0 => (resp.totalPages - 1) * req.qLimit.num < resp.total
       /\ resp.totalPages = 0 <=> resp.total = 0
       /\ resp.total = Cardinality(MatchPositions(pre, req))

\* C8 witness: page 2 of eleven records, two to the page, of six pages
C8_Witness ==
    /\ Listed
    /\ req.qLimit = Num(2)
    /\ req.qPage = Num(2)
    /\ resp.total = 11
    /\ resp.totalPages = 6
    /\ Len(resp.data) = 2

\* C9 as stated: a listing echoes the page and the limit in effect (1 and 10
\* in place of an absent or non-positive value) and returns the matching
\* records at positions offset + 1 .. offset + limit, offset = (page - 1) *
\* limit, of an order by created_at descending: none when offset >= total,
\* as it is for every page of WidePages.
C9_AsStated ==
    Listed
    => LET matching == MatchPositions(pre, req)
           offset == (EffPage(req) - 1) * EffLimit(req)
           rest == IF WidePage(req) THEN 0
                   ELSE Cardinality(matching) - offset
           Newer(t) == {i \in matching : pre[i].CreatedAt > t}
           NotOlder(t) == {i \in matching : pre[i].CreatedAt >= t}
       IN  /\ resp.page = IF WidePage(req) THEN WidePages[req.qPage.num]
                          ELSE Int64(EffPage(req))
           /\ resp.limit = EffLimit(req)
           /\ Len(resp.data) =
                 IF rest <= 0 THEN 0
                 ELSE IF rest < EffLimit(req) THEN rest ELSE EffLimit(req)
           /\ Range(resp.data) \subseteq RowsAt(pre, matching)
           /\ \A k, l \in DOMAIN resp.data :
                  k < l => /\ resp.data[k] # resp.data[l]
                           /\ resp.data[k].CreatedAt >= resp.data[l].CreatedAt
           /\ \A k \in DOMAIN resp.data :
                  /\ Cardinality(Newer(resp.data[k].CreatedAt)) < offset + k
                  /\ Cardinality(NotOlder(resp.data[k].CreatedAt)) >= offset + k

\* C10: every stored record, live or soft-deleted, has a positive amount and
\* a status among pending, success and failed.
C10_StoredRecordsValid ==
    \A i \in DOMAIN Unscoped(db) :
        /\ db[i].Amount > 0
        /\ db[i].Status \in {"pending", "success", "failed"}

\* C10 witness: a record set to failed and then deleted, beside one set to
\* success
C10_Witness ==
    /\ Len(db) = 2
    /\ db[1].Status = "failed"
    /\ db[1].DeletedAt # NULL
    /\ db[2].Status = "success"

\* C11: the ids of the rows, deleted ones too, are distinct and increase in
\* creation order; a request leaves the id of every row it found as it was;
\* and the id a create assigns is greater than every id in the table before
\* it, the ids of soft-deleted rows included.
C11_IdsIncreaseNeverReused ==
    /\ \A i, j \in DOMAIN Unscoped(db) : i < j => db[i].ID < db[j].ID
    /\ pc = "responded"
       => /\ \A i \in DOMAIN pre : i \in DOMAIN db /\ db[i].ID = pre[i].ID
          /\ (req.op = "create" /\ resp.code = 201)
             => /\ Len(db) = Len(pre) + 1
                /\ db[Len(db)].ID = resp.txn.ID
                /\ \A i \in DOMAIN pre : resp.txn.ID > pre[i].ID

\* C11 witness: a create on a table whose only record, of id 1, is
\* soft-deleted was given the id 2
C11_Witness ==
    /\ Responded("create")
    /\ resp.code = 201
    /\ Len(pre) = 1
    /\ pre[1].ID = 1
    /\ pre[1].DeletedAt # NULL
    /\ resp.txn.ID = 2

\* C12: an update to any of pending, success and failed of a live record,
\* whatever its status, is answered 200 with the record carrying the status
\* asked for, and the stored record carries it too.
C12_TransitionsUnrestricted ==
    \A s \in {"pending", "success", "failed"} :
        (Responded("update") /\ ~req.malformed /\ req.status = Str(s)
           /\ FitsUint32(req.idStr) /\ ~NoLiveNamed(pre, req.idStr))
        => /\ resp.code = 200
           /\ resp.txn.Status = s
           /\ \E i \in Named(pre, req.idStr) \cap LivePositions(pre) :
                  /\ db[i].Status = s
                  /\ db[i].DeletedAt = NULL

\* C12 witness: a record that was failed is pending again
C12_Witness ==
    /\ Responded("update")
    /\ req.status = Str("pending")
    /\ resp.code = 200
    /\ \E i \in Named(pre, req.idStr) :
           pre[i].Status = "failed" /\ db[i].Status = "pending"

\* C13 as stated: a status of the list filter or of the update body that is
\* pending, success or failed is accepted, and any other string (the empty
\* one set aside) is answered 400 invalid_status with the table left as it
\* was.
C13_AsStated ==
    /\ (Responded("list") /\ req.qStatus.kind = "str" /\ req.qStatus.str # "")
       => IF req.qStatus.str \in {"pending", "success", "failed"}
          THEN resp.code = 200
          ELSE resp.code = 400 /\ resp.error = "invalid_status" /\ db = pre
    /\ (Responded("update") /\ ~req.malformed /\ req.status.kind = "str"
          /\ req.status.str # "" /\ FitsUint32(req.idStr))
       => IF req.status.str \in {"pending", "success", "failed"}
          THEN resp.code \in {200, 404}
          ELSE resp.code = 400 /\ resp.error = "invalid_status" /\ db = pre

\* C13, amended: in a request that is otherwise well-formed, a status of
\* pending, success or failed is accepted by the list filter and by the
\* update body; any other string is answered 400 with the table left as it
\* was, by the list filter with the error code invalid_status when the
\* string is not empty (an empty status is no filter), by the update body
\* with the error code validation_error.
C13_StatusValues ==
    /\ (Responded("list") /\ req.qStatus.kind = "str"
          /\ req.qUser.kind # "str" /\ req.qPage.kind # "str"
          /\ req.qLimit.kind # "str")
       => IF req.qStatus.str \in {"pending", "success", "failed", ""}
          THEN resp.code = 200
          ELSE resp.code = 400 /\ resp.error = "invalid_status" /\ db = pre
    /\ (Responded("update") /\ ~req.malformed /\ req.status.kind = "str"
          /\ FitsUint32(req.idStr))
       => IF req.status.str \in {"pending", "success", "failed"}
          THEN resp.code \in {200, 404}
          ELSE resp.code = 400 /\ resp.error = "validation_error" /\ db = pre

\* C13 witness: an update of a live record to the status Pending, with a
\* capital, was refused
C13_Witness ==
    /\ Responded("update")
    /\ req.status = Str("Pending")
    /\ ~NoLiveNamed(pre, req.idStr)
    /\ resp.code = 400
    /\ db = pre

\* C14: the summary's total_transactions is the number of live rows of the
\* table, of every status and creation date.
C14_TotalTransactions ==
    Summarised
    => resp.summary.TotalTransactions = Cardinality(LivePositions(pre))

\* C14 witness: of two records, one of them updated, one is deleted, and
\* the total is 1
C14_Witness ==
    /\ Summarised
    /\ Len(pre) = 2
    /\ Cardinality(LivePositions(pre)) = 1
    /\ \E i \in DOMAIN pre : pre[i].Status # "pending"
    /\ resp.summary.TotalTransactions = 1

\* C15: total_success_today is the number, and total_amount_today the sum
\* of the amounts (0 if none), of the live rows of status success whose
\* created_at is in [midnight, midnight + 24h), midnight being the last
\* one at or before the clock's time.
C15_TodayWindow ==
    Summarised
    => /\ resp.summary.TotalSuccessToday = Cardinality(TodayPositions(pre))
       /\ resp.summary.TotalAmountToday = AmountOver(pre, TodayPositions(pre))

\* C15 witness: a success record created exactly at midnight is counted,
\* one created exactly 24 hours later is not, and a record created today
\* that is not success is not
C15_Witness ==
    /\ Summarised
    /\ \E i \in SuccessPositions(pre) : pre[i].CreatedAt = Midnight
    /\ \E i \in SuccessPositions(pre) : pre[i].CreatedAt = Midnight + Day
    /\ \E i \in LivePositions(pre) :
           /\ pre[i].Status # "success"
           /\ pre[i].CreatedAt >= Midnight
           /\ pre[i].CreatedAt < Midnight + Day
    /\ resp.summary.TotalSuccessToday = 1
    /\ resp.summary.TotalAmountToday = 2

\* C16: total_amount is the sum of the amounts of the live rows of status
\* success, whatever their creation date: 0 when there is none.
C16_TotalAmount ==
    Summarised
    => resp.summary.TotalAmount = AmountOver(pre, SuccessPositions(pre))

\* C16 witness: of two success records of amount 2 one is deleted, and the
\* total amount is 2
C16_Witness ==
    /\ Summarised
    /\ Len(pre) = 2
    /\ \A i \in DOMAIN pre : pre[i].Status = "success" /\ pre[i].Amount = 2
    /\ Cardinality(LivePositions(pre)) = 1
    /\ resp.summary.TotalAmount = 2

\* C17: average_amount_per_user is the sum of the amounts of the live rows
\* of status success over their number, whoever the users are.
C17_AverageIsPlainMean ==
    (Summarised /\ SuccessPositions(pre) # {})
    => /\ resp.summary.AverageAmountPerUser.den > 0
       /\ resp.summary.AverageAmountPerUser.num
              * Cardinality(SuccessPositions(pre))
            = resp.summary.AverageAmountPerUser.den
                 * AmountOver(pre, SuccessPositions(pre))

\* C17 witness: three success records, two of one user and one of another,
\* of amounts 2, 1 and 2: the average is 5/3
C17_Witness ==
    /\ Summarised
    /\ Cardinality(SuccessPositions(pre)) = 3
    /\ Cardinality({pre[i].UserID : i \in SuccessPositions(pre)}) = 2
    /\ resp.summary.AverageAmountPerUser = [num |-> 5, den |-> 3]

\* C18: status_distribution has one key for each status that a live row
\* has, and no other; the value of a key is the number of live rows of
\* that status.
C18_StatusDistribution ==
    Summarised
    => LET Of(s) == {i \in LivePositions(pre) : pre[i].Status = s}
           present == {pre[i].Status : i \in LivePositions(pre)}
       IN  resp.summary.StatusDistribution =
               {<<s, Cardinality(Of(s))>> : s \in present}

\* C18 witness: a live success record beside a deleted failed one: success
\* is the only key
C18_Witness ==
    /\ Summarised
    /\ Len(pre) = 2
    /\ \E i, j \in DOMAIN pre :
           /\ pre[i].Status = "success" /\ pre[i].DeletedAt = NULL
           /\ pre[j].Status = "failed" /\ pre[j].DeletedAt # NULL
    /\ resp.summary.StatusDistribution = {<<"success", 1>>}

\* C19: recent_transactions holds min(10, n) distinct live rows, n the
\* number of live rows, in an order of created_at descending, and no live
\* row left out was created after one that is in it.
C19_RecentTransactions ==
    Summarised
    => LET recent == resp.summary.RecentTransactions
           n == Cardinality(LivePositions(pre))
       IN  /\ Len(recent) = IF n < 10 THEN n ELSE 10
           /\ Range(recent) \subseteq RowsAt(pre, LivePositions(pre))
           /\ \A k, l \in DOMAIN recent :
                  k < l => /\ recent[k] # recent[l]
                           /\ recent[k].CreatedAt >= recent[l].CreatedAt
           /\ \A i \in LivePositions(pre) :
                  pre[i] \notin Range(recent)
                  => \A k \in DOMAIN recent :
                         pre[i].CreatedAt <= recent[k].CreatedAt

\* C19 witness: of eleven live records of all three statuses and several
\* days the ten newest are listed; the oldest is not
C19_Witness ==
    /\ Summarised
    /\ Cardinality(LivePositions(pre)) = 11
    /\ Len(resp.summary.RecentTransactions) = 10
    /\ pre[1] \notin Range(resp.summary.RecentTransactions)
    /\ {r.Status : r \in Range(resp.summary.RecentTransactions)}
           = {"pending", "success", "failed"}

\* C20: when the two goroutines have each served an update, with a valid
\* status, of the same id, which named a live record at the start, both
\* were answered 200, whatever the order of their fetches and saves; the
\* stored status is the one of the save that came last; and the record's
\* id, user_id and amount are those it had at the start.
C20_LastWriteWins ==
    \A v, w \in Workers :
        (/\ v # w
         /\ inflight[v].step = "done" /\ inflight[w].step = "done"
         /\ inflight[v].req.op = "update" /\ inflight[w].req.op = "update"
         /\ inflight[v].req.idStr = inflight[w].req.idStr
         /\ ValidUpdateBody(inflight[v].req) /\ ValidUpdateBody(inflight[w].req)
         /\ FitsUint32(inflight[v].req.idStr)
         /\ ~NoLiveNamed(pre, inflight[v].req.idStr)
         /\ inflight[v].order <= inflight[w].order)
        => /\ inflight[v].resp.code = 200
           /\ inflight[w].resp.code = 200
           /\ inflight[v].order < inflight[w].order
           /\ \E i \in Named(pre, inflight[v].req.idStr) :
                  /\ db[i].Status = inflight[w].req.status.str
                  /\ db[i].ID = pre[i].ID
                  /\ db[i].UserID = pre[i].UserID
                  /\ db[i].Amount = pre[i].Amount
                  /\ db[i].DeletedAt = NULL

\* C20 witness: both goroutines fetched the pending record before either
\* saved; the first saved success, the second saved failed a tick later,
\* and the record is failed
C20_Witness ==
    /\ inflight[1].step = "done" /\ inflight[2].step = "done"
    /\ inflight[1].req.idStr = IdString(1)
    /\ inflight[2].req.idStr = IdString(1)
    /\ pre[1].Status = "pending"
    /\ inflight[1].txn.Status = "pending"
    /\ inflight[2].txn.Status = "pending"
    /\ inflight[1].req.status = Str("success")
    /\ inflight[2].req.status = Str("failed")
    /\ inflight[1].order = 1 /\ inflight[2].order = 2
    /\ inflight[1].resp.code = 200 /\ inflight[2].resp.code = 200
    /\ inflight[2].resp.txn.UpdatedAt > inflight[1].resp.txn.UpdatedAt
    /\ db[1].Status = "failed"

\* a goroutine has answered a request of that kind
Answered(w, op) == inflight[w].step = "done" /\ inflight[w].req.op = op

\* the sum of the counts of a status distribution
RECURSIVE SumCounts(_)
SumCounts(pairs) ==
    IF pairs = {} THEN 0
    ELSE LET p == CHOOSE q \in pairs : TRUE
         IN  p[2] + SumCounts(pairs \ {p})

\* the two relations of C21 between the fields of a summary
Consistent(summary) ==
    /\ summary.TotalTransactions = SumCounts(summary.StatusDistribution)
    /\ summary.TotalSuccessToday <= summary.TotalTransactions

\* C21 as stated: every summary returned, also one whose queries a create,
\* an update or a delete of another goroutine came between, has
\* total_transactions equal to the sum of its status_distribution counts
\* and total_success_today at most total_transactions.
C21_AsStated ==
    \A w \in Workers :
        Answered(w, "dashboard") => Consistent(inflight[w].resp.summary)

\* C21: each field of a summary is read from the live records as they are
\* when its query runs; every summary returned between whose first and last
\* query no write was made to the table has total_transactions equal to the
\* sum of its status_distribution counts and total_success_today at most
\* total_transactions.
C21_SummaryWithoutWritesBetween ==
    \A w \in Workers :
        (Answered(w, "dashboard") /\ inflight[w].from = inflight[w].upto)
        => Consistent(inflight[w].resp.summary)

\* C21 witness: a summary of a table of two live records, read after the
\* other goroutine's write and with no write between its queries
C21_Witness ==
    \E w \in Workers :
        /\ Answered(w, "dashboard")
        /\ inflight[w].from = 1 /\ inflight[w].upto = 1
        /\ inflight[w].resp.summary.TotalTransactions = 2
        /\ inflight[w].resp.summary.TotalSuccessToday = 1
        /\ SumCounts(inflight[w].resp.summary.StatusDistribution) = 2
        /\ Cardinality(inflight[w].resp.summary.StatusDistribution) = 2

\* a goroutine's DELETE of the record of that id was answered 204
Deleted(w, id) ==
    /\ Answered(w, "delete")
    /\ inflight[w].resp.code = 204
    /\ ParseUint(inflight[w].req.idStr).val = id

\* C22 as stated: once a DELETE of an id has been answered 204, the record
\* of that id is not live, whatever step of another request runs later,
\* and no PUT of that id whose save comes after the delete is answered 200.
C22_AsStated ==
    \A d \in Workers : \A id \in IDs(pre) :
        Deleted(d, id)
        => /\ LiveAt(db, id) = {}
           /\ \A u \in Workers :
                  (/\ Answered(u, "update")
                   /\ ParseUint(inflight[u].req.idStr).val = id
                   /\ inflight[u].order > inflight[d].order)
                  => inflight[u].resp.code # 200

\* C22, the case: a PUT fetched the record, the DELETE was answered 204,
\* and the PUT's save ran after it
C22_Witness ==
    \E d, u \in Workers :
        /\ Deleted(d, 1)
        /\ Answered(u, "update")
        /\ inflight[u].req.idStr = IdString(1)
        /\ inflight[d].order = 1 /\ inflight[u].order = 2

\* C23 as stated: of the DELETE requests of one id that have been answered,
\* whatever the order of their fetches and soft-deletes, at most one was
\* answered 204 and every other was answered 404 not_found.
C23_AsStated ==
    \A v, w \in Workers :
        (/\ v # w
         /\ Answered(v, "delete") /\ Answered(w, "delete")
         /\ FitsUint32(inflight[v].req.idStr)
         /\ inflight[v].req.idStr = inflight[w].req.idStr)
        => \/ inflight[v].resp.code = 404 /\ inflight[v].resp.error = "not_found"
           \/ inflight[w].resp.code = 404 /\ inflight[w].resp.error = "not_found"

\* C23, the case: both DELETE requests fetched the live record 1 before
\* either soft-deleted it, and both have been answered
C23_Witness ==
    /\ Answered(1, "delete") /\ Answered(2, "delete")
    /\ inflight[1].req.idStr = IdString(1)
    /\ inflight[2].req.idStr = IdString(1)
    /\ inflight[1].txn.ID = 1 /\ inflight[2].txn.ID = 1
    /\ inflight[1].order = 1 /\ inflight[2].order = 2
    /\ db[1].DeletedAt = 0 /\ clock = 1

\* C24: every request answered with an error (400 validation_error,
\* invalid_id or invalid_status, 404 not_found) and every read request
\* (fetch by id, listing, dashboard summary, health) leaves the table as it
\* was: no row is added, and no row's status, user_id, amount or deletion
\* marker, nor any other column, is changed.
C24_ErrorsAndReadsChangeNothing ==
    (/\ pc = "responded"
     /\ \/ resp.code \in {400, 404}
        \/ req.op \in {"get", "list", "dashboard", "health"})
    => /\ Len(db) = Len(pre)
       /\ \A i \in DOMAIN pre :
              /\ db[i].Status = pre[i].Status
              /\ db[i].UserID = pre[i].UserID
              /\ db[i].Amount = pre[i].Amount
              /\ db[i].DeletedAt = pre[i].DeletedAt
       /\ db = pre

\* C24 witness: at a later time than its deletion, the delete of a deleted
\* record that stands beside a live one was answered 404
C24_Witness ==
    /\ Responded("delete")
    /\ resp.code = 404
    /\ Len(pre) = 2
    /\ \E i \in Named(pre, req.idStr) :
           pre[i].DeletedAt # NULL /\ pre[i].DeletedAt < clock
    /\ \E i \in DOMAIN pre : pre[i].DeletedAt = NULL

====
